---- MODULE Spec2Model ----
(***************************************************************************)
(* PyPV-Eval (src/main.py): the cash-flow engine of PVProject, its metrics *)
(* and the goal-seek built on top of it.                                   *)
(*                                                                         *)
(* Numbers.  The program computes in binary floating point.  Here every    *)
(* amount of money is an integer count of MONEY-ths of a wan-yuan (one     *)
(* yuan), and every division of the source rounds down to that resolution  *)
(* (MulDiv).  Inputs carry fixed units:                                    *)
(*   capacity_mw            MW                                             *)
(*   static_invest,                                                        *)
(*   deductible_tax         yuan (1/MONEY wan-yuan)                        *)
(*   hours                  h                                              *)
(*   loan_rate              1/RATE_DEN           (4876 is 0.04876)         *)
(*   capital_ratio,                                                        *)
(*   self_consumption_ratio percent                                        *)
(*   prices                 1/1000 yuan per kWh  (400 is 0.40)             *)
(* Rates of the Constants class are held in percent or per-mille, as noted *)
(* at each definition.                                                     *)
(***************************************************************************)
EXTENDS Integers, Sequences, FiniteSets, TLC

\* ------------------------------------------------------------------ units
MONEY == 100 * 100            \* model units per wan-yuan
RATE_DEN == 1000 * 100        \* loan_rate denominator

\* floor(a * n / d) without forming a * n  (d > 0, n >= 0)
MulDiv(a, n, d) == (a \div d) * n + ((a % d) * n) \div d

Max(a, b) == IF a >= b THEN a ELSE b
Abs(a) == IF a < 0 THEN -a ELSE a

\* ------------------------------------------------- class Constants (20-55)
MODE_FULL_GRID == "full_grid"
MODE_SELF_CONSUMPTION == "self_consumption"
VAT_RATE == 13                \* percent
SURTAX_RATE == 10             \* percent
INCOME_TAX_RATE == 250        \* per-mille
DEPRECIATION_YEARS == 20
RESIDUAL_RATIO == 5           \* percent
DEPRECIATION_BASE_RATIO == 95 \* percent
OPERATION_PERIOD == 25
WORKING_CAPITAL_PER_MW == 3   \* wan-yuan per MW
OTHER_COST_RATIO == 5         \* per-mille
MIN_INVEST == 1000            \* wan-yuan
MAX_INVEST == 100000          \* wan-yuan

\* OM_RATES, yuan per kWp, and _get_om_rate's lookup with its default tier
_get_om_rate(year_idx) ==
    IF 1 <= year_idx /\ year_idx <= 5 THEN 10
    ELSE IF 6 <= year_idx /\ year_idx <= 10 THEN 18
    ELSE IF 11 <= year_idx /\ year_idx <= 20 THEN 28
    ELSE 32

\* ------------------------------------------------------ parameter records
\* A key of the params dict: present with a value, or missing.
Num(v) == [has |-> TRUE, v |-> v]
Missing == [has |-> FALSE, v |-> 0]

\* dict.get(key, default)
Get(k, default) == IF k.has THEN k.v ELSE default

\* deductible_tax: missing, a number, or a value arithmetic cannot use
DedMissing == [k |-> "missing", v |-> 0]
DedNum(v) == [k |-> "num", v |-> v]
DedBad == [k |-> "bad", v |-> 0]

\* ------------------------------------------- _validate_and_init_params
\* mode = self.p.get('mode', MODE_FULL_GRID)
ModeOf(p) == IF p.mode = "missing" THEN MODE_FULL_GRID ELSE p.mode

\* Validate with no test of the hours
ValidateNoHours(p) ==
    IF ModeOf(p) \notin {MODE_FULL_GRID, MODE_SELF_CONSUMPTION} THEN "InputValidationError"
    ELSE IF ~p.capacity_mw.has \/ ~p.static_invest.has THEN "InputValidationError"
    ELSE IF p.capacity_mw.v <= 0 THEN "InputValidationError"
    ELSE IF p.static_invest.v <= 0 THEN "InputValidationError"
    ELSE IF ~(0 < Get(p.capital_ratio, 20) /\ Get(p.capital_ratio, 20) <= 100)
         THEN "InputValidationError"
    ELSE IF ModeOf(p) = MODE_FULL_GRID
         THEN (IF ~p.price_tax_inc.has THEN "InputValidationError" ELSE "none")
    ELSE IF ~p.self_consumption_ratio.has \/ ~p.retail_price.has \/ ~p.feedin_price.has
         THEN "InputValidationError"
    ELSE IF ~(0 <= p.self_consumption_ratio.v /\ p.self_consumption_ratio.v <= 100)
         THEN "InputValidationError"
    ELSE "none"

\* The exception the constructor raises for p, or "none".
Validate(p) ==
    LET mode == ModeOf(p) IN
    IF mode \notin {MODE_FULL_GRID, MODE_SELF_CONSUMPTION} THEN "InputValidationError"
    ELSE IF ~p.capacity_mw.has \/ ~p.static_invest.has THEN "InputValidationError"
    ELSE IF p.capacity_mw.v <= 0 THEN "InputValidationError"
    ELSE IF p.static_invest.v <= 0 THEN "InputValidationError"
    ELSE IF Get(p.hours, 1000) <= 0 THEN "InputValidationError"
    ELSE IF ~(0 < Get(p.capital_ratio, 20) /\ Get(p.capital_ratio, 20) <= 100)
         THEN "InputValidationError"
    ELSE IF mode = MODE_FULL_GRID
         THEN (IF ~p.price_tax_inc.has THEN "InputValidationError" ELSE "none")
    ELSE IF ~p.self_consumption_ratio.has \/ ~p.retail_price.has \/ ~p.feedin_price.has
         THEN "InputValidationError"
    ELSE IF ~(0 <= p.self_consumption_ratio.v /\ p.self_consumption_ratio.v <= 100)
         THEN "InputValidationError"
    ELSE "none"

\* The attributes the constructor sets on self (for a p that validates).
Self(p) ==
    [ capacity |-> p.capacity_mw.v,
      static_invest |-> p.static_invest.v,
      gen_hours |-> Get(p.hours, 1000),
      loan_rate |-> Get(p.loan_rate, 4900),
      capital_ratio |-> Get(p.capital_ratio, 20),
      loan_principal |->
          MulDiv(p.static_invest.v, 100 - Get(p.capital_ratio, 20), 100),
      mode |-> ModeOf(p),
      price_tax_inc |-> p.price_tax_inc.v,
      self_consumption_ratio |-> p.self_consumption_ratio.v,
      retail_price |-> p.retail_price.v,
      feedin_price |-> p.feedin_price.v ]

\* _calc_construction_interest with the rate on the whole loan
InterestOnWholeLoan(self) ==
    MulDiv(self.loan_principal, self.loan_rate, RATE_DEN)

\* ------------------------------------------- _calc_construction_interest
\* (loan_principal / 2) * loan_rate
_calc_construction_interest(self) ==
    MulDiv(self.loan_principal \div 2, self.loan_rate, RATE_DEN)

\* ------------------------------------------------ calculate_cash_flow
Cols == {"Generation", "Revenue_Inc", "Revenue_Exc", "Output_VAT", "OM_Cost",
         "VAT_Payable", "Surtax", "Total_Cost", "Profit_Total", "Income_Tax",
         "Net_CF_Pre", "Net_CF_After"}

\* for c in cols: df[c] = 0.0
ZeroRow == [c \in Cols |-> 0]

Periods == 1 .. (OPERATION_PERIOD + 1)

\* working_capital = capacity * WORKING_CAPITAL_PER_MW
WorkingCapital(self) == self.capacity * WORKING_CAPITAL_PER_MW * MONEY

\* self.p.get('deductible_tax', static_invest / (1 + VAT_RATE) * VAT_RATE)
DeductibleTax(p, self) ==
    IF p.deductible_tax.k = "missing"
    THEN MulDiv(MulDiv(self.static_invest, 100, 100 + VAT_RATE), VAT_RATE, 100)
    ELSE p.deductible_tax.v

\* InitialDf with the construction interest counted in the first outflow
InitialDfWithInterest(self) ==
    [y \in Periods |->
        IF y = 1
        THEN [ZeroRow EXCEPT
                !["Net_CF_Pre"] = -(self.static_invest + WorkingCapital(self)
                                    + _calc_construction_interest(self)),
                !["Net_CF_After"] = -(self.static_invest + WorkingCapital(self)
                                      + _calc_construction_interest(self))]
        ELSE ZeroRow]

\* df after the construction-period row is written
InitialDf(self) ==
    [y \in Periods |->
        IF y = 1
        THEN [ZeroRow EXCEPT !["Net_CF_Pre"] = -(self.static_invest + WorkingCapital(self)),
                             !["Net_CF_After"] = -(self.static_invest + WorkingCapital(self))]
        ELSE ZeroRow]

\* Revenue with the surplus sold at the retail price
RevenueSurplusAtRetail(self) ==
    LET generation == self.capacity * self.gen_hours IN
    IF self.mode = MODE_FULL_GRID
    THEN LET rev_inc == generation * self.price_tax_inc
             rev_exc == MulDiv(rev_inc, 100, 100 + VAT_RATE)
         IN [generation |-> generation, rev_inc |-> rev_inc, rev_exc |-> rev_exc,
             output_vat |-> rev_inc - rev_exc]
    ELSE LET self_consumed_mwh == MulDiv(generation, self.self_consumption_ratio, 100)
             surplus_mwh == MulDiv(generation, 100 - self.self_consumption_ratio, 100)
             rev_self_exc == MulDiv(self_consumed_mwh * self.retail_price, 100, 100 + VAT_RATE)
             rev_surplus_inc == surplus_mwh * self.retail_price
             rev_surplus_exc == MulDiv(rev_surplus_inc, 100, 100 + VAT_RATE)
             vat_surplus == rev_surplus_inc - rev_surplus_exc
         IN [generation |-> generation, rev_inc |-> rev_surplus_inc,
             rev_exc |-> rev_self_exc + rev_surplus_exc, output_vat |-> vat_surplus]

\* Revenue with output VAT on the self-consumed energy as well
RevenueVatOnAll(self) ==
    LET generation == self.capacity * self.gen_hours IN
    IF self.mode = MODE_FULL_GRID
    THEN LET rev_inc == generation * self.price_tax_inc
             rev_exc == MulDiv(rev_inc, 100, 100 + VAT_RATE)
         IN [generation |-> generation, rev_inc |-> rev_inc, rev_exc |-> rev_exc,
             output_vat |-> rev_inc - rev_exc]
    ELSE LET self_consumed_mwh == MulDiv(generation, self.self_consumption_ratio, 100)
             surplus_mwh == MulDiv(generation, 100 - self.self_consumption_ratio, 100)
             rev_self_inc == self_consumed_mwh * self.retail_price
             rev_self_exc == MulDiv(rev_self_inc, 100, 100 + VAT_RATE)
             rev_surplus_inc == surplus_mwh * self.feedin_price
             rev_surplus_exc == MulDiv(rev_surplus_inc, 100, 100 + VAT_RATE)
         IN [generation |-> generation, rev_inc |-> rev_self_inc + rev_surplus_inc,
             rev_exc |-> rev_self_exc + rev_surplus_exc,
             output_vat |-> (rev_self_inc - rev_self_exc)
                            + (rev_surplus_inc - rev_surplus_exc)]

\* 1. generation and revenue of one operating year
Revenue(self) ==
    LET generation == self.capacity * self.gen_hours IN
    IF self.mode = MODE_FULL_GRID
    THEN LET rev_inc == generation * self.price_tax_inc
             rev_exc == MulDiv(rev_inc, 100, 100 + VAT_RATE)
         IN [generation |-> generation, rev_inc |-> rev_inc, rev_exc |-> rev_exc,
             output_vat |-> rev_inc - rev_exc]
    ELSE LET self_consumed_mwh == MulDiv(generation, self.self_consumption_ratio, 100)
             surplus_mwh == MulDiv(generation, 100 - self.self_consumption_ratio, 100)
             rev_self_exc == MulDiv(self_consumed_mwh * self.retail_price, 100, 100 + VAT_RATE)
             rev_surplus_inc == surplus_mwh * self.feedin_price
             rev_surplus_exc == MulDiv(rev_surplus_inc, 100, 100 + VAT_RATE)
             vat_surplus == rev_surplus_inc - rev_surplus_exc
         IN [generation |-> generation, rev_inc |-> rev_surplus_inc,
             rev_exc |-> rev_self_exc + rev_surplus_exc, output_vat |-> vat_surplus]

\* OmCost with the interest of the loan among the costs of the year
OmCostWithInterest(self, op_year) ==
    self.capacity * 1000 * _get_om_rate(op_year)
    + MulDiv(self.static_invest, OTHER_COST_RATIO, 1000)
    + MulDiv(self.loan_principal, self.loan_rate, RATE_DEN)

\* 2. O&M plus other cost
OmCost(self, op_year) ==
    self.capacity * 1000 * _get_om_rate(op_year)
    + MulDiv(self.static_invest, OTHER_COST_RATIO, 1000)

\* 3. the VAT deduction pool: the new pool and the VAT payable
VatPool(current_deductible, output_vat) ==
    IF current_deductible > 0
    THEN IF current_deductible >= output_vat
         THEN [current_deductible |-> current_deductible - output_vat, vat_pay |-> 0]
         ELSE [current_deductible |-> 0, vat_pay |-> output_vat - current_deductible]
    ELSE [current_deductible |-> current_deductible, vat_pay |-> output_vat]

\* Depreciation that goes on over the whole operating life
DepreciationWholeLife(fixed_asset_value, op_year) ==
    IF op_year <= OPERATION_PERIOD
    THEN MulDiv(fixed_asset_value, DEPRECIATION_BASE_RATIO, 100) \div DEPRECIATION_YEARS
    ELSE 0

\* 4. straight-line depreciation
Depreciation(fixed_asset_value, op_year) ==
    IF op_year <= DEPRECIATION_YEARS
    THEN MulDiv(fixed_asset_value, DEPRECIATION_BASE_RATIO, 100) \div DEPRECIATION_YEARS
    ELSE 0

\* three years exempt, three years at half rate (per-mille)
TaxRate(op_year) ==
    IF op_year <= 3 THEN 0
    ELSE IF op_year <= 6 THEN INCOME_TAX_RATE \div 2
    ELSE INCOME_TAX_RATE

\* IncomeTax without the floor at zero
IncomeTaxOfLoss(profit, tax_rate) == MulDiv(profit, tax_rate, 1000)

\* income_tax = max(0.0, profit * tax_rate)
IncomeTax(profit, tax_rate) == Max(0, MulDiv(profit, tax_rate, 1000))

\* TerminalInflow from the last operating year but one on
TerminalInflowEarly(self, y) ==
    IF y >= OPERATION_PERIOD
    THEN MulDiv(self.static_invest, RESIDUAL_RATIO, 100) + WorkingCapital(self)
    ELSE 0

\* 5. the terminal inflow, in the last period only
TerminalInflow(self, y) ==
    IF y = OPERATION_PERIOD + 1
    THEN MulDiv(self.static_invest, RESIDUAL_RATIO, 100) + WorkingCapital(self)
    ELSE 0

\* One pass of the loop body for period y, from the pool as it stands.
Iteration(self, fixed_asset_value, current_deductible, y) ==
    LET op_year == y - 1
        rev == Revenue(self)
        om_cost == OmCost(self, op_year)
        pool == VatPool(current_deductible, rev.output_vat)
        surtax == MulDiv(pool.vat_pay, SURTAX_RATE, 100)
        depreciation == Depreciation(fixed_asset_value, op_year)
        profit == rev.rev_exc - om_cost - surtax - depreciation
        income_tax == IncomeTax(profit, TaxRate(op_year))
        inflow == rev.rev_exc + TerminalInflow(self, y)
        outflow == om_cost + surtax
    IN [ row |-> [ZeroRow EXCEPT
                    !["Generation"] = rev.generation,
                    !["Revenue_Inc"] = rev.rev_inc,
                    !["Revenue_Exc"] = rev.rev_exc,
                    !["Output_VAT"] = rev.output_vat,
                    !["OM_Cost"] = om_cost,
                    !["VAT_Payable"] = pool.vat_pay,
                    !["Surtax"] = surtax,
                    !["Income_Tax"] = income_tax,
                    !["Net_CF_Pre"] = inflow - outflow,
                    !["Net_CF_After"] = inflow - outflow - income_tax],
         current_deductible |-> pool.current_deductible,
         depreciation |-> depreciation,
         profit |-> profit ]

\* ------------------------------------------------------------ get_metrics
\* npf.irr: the rate at which the net present value of cf turns from >= 0
\* to < 0, searched on a grid of 1/IRR_DEN (half a reported digit) between
\* IRR_LO and IRR_HI; nan when the flows show no change of sign.
IRR_DEN == 200 * 100
IRR_LO == -(20 * 100)
IRR_HI == 120 * 100

RECURSIVE NpvFrom(_, _, _)
NpvFrom(cf, t, k) ==
    IF t = Len(cf) THEN cf[t]
    ELSE cf[t] + MulDiv(NpvFrom(cf, t + 1, k), IRR_DEN, IRR_DEN + k)

Npv(cf, k) == NpvFrom(cf, 1, k)

\* the largest k in lo .. hi with Npv(cf, k) >= 0, given Npv(cf, lo) >= 0
RECURSIVE IrrSearch(_, _, _)
IrrSearch(cf, lo, hi) ==
    IF hi - lo <= 1
    THEN (IF Npv(cf, hi) >= 0 THEN hi ELSE lo)
    ELSE LET mid == (lo + hi) \div 2 IN
         IF Npv(cf, mid) >= 0 THEN IrrSearch(cf, mid, hi) ELSE IrrSearch(cf, lo, mid - 1)

NanValue == [nan |-> TRUE, v |-> 0]
Value(v) == [nan |-> FALSE, v |-> v]

\* The root does not change when every flow is divided by the same number:
\* flows of a first outlay above IRR_UNSCALED are brought down to that size,
\* which keeps the sums within the integers at hand.
IRR_UNSCALED == 2000 * MONEY

Scaled(cf) == [t \in 1 .. Len(cf) |-> cf[t] \div (1 + Abs(cf[1]) \div IRR_UNSCALED)]

IrrOfScaled(cf) ==
    IF Npv(cf, IRR_LO) < 0 THEN Value(IRR_LO)
    ELSE Value(IrrSearch(cf, IRR_LO, IRR_HI))

irr(cf) ==
    IF (\A t \in 1 .. Len(cf) : cf[t] <= 0) \/ (\A t \in 1 .. Len(cf) : cf[t] >= 0)
    THEN NanValue
    ELSE IrrOfScaled(Scaled(cf))

\* round(irr * 100, 2): the rate in 1/100 of a percentage point
RoundIrr(r) == IF r.nan THEN r ELSE Value((r.v + 1) \div 2)

\* round(x, 2) of an amount of money
RoundMoney(x) == ((x + (MONEY \div 200)) \div (MONEY \div 100)) * (MONEY \div 100)

\* the column c of a ledger, as df[c].values
Column(ledger, c) == [t \in 1 .. Len(ledger) |-> ledger[t][c]]

\* np.cumsum
RECURSIVE CumSumAt(_, _)
CumSumAt(cf, t) == IF t = 0 THEN 0 ELSE CumSumAt(cf, t - 1) + cf[t]

cumsum(cf) == [t \in 1 .. Len(cf) |-> CumSumAt(cf, t)]

\* Payback with the horizon reported for a project that never recovers
PaybackHorizon(cf_after) ==
    LET cum == cumsum(cf_after)
        positive_indices == {t \in 1 .. Len(cf_after) : cum[t] >= 0}
    IN IF positive_indices # {}
       THEN LET p_idx == (CHOOSE t \in positive_indices :
                              \A u \in positive_indices : t <= u) - 1
            IN IF p_idx > 0
               THEN [whole |-> p_idx - 1, num |-> Abs(cum[p_idx]), den |-> cf_after[p_idx + 1]]
               ELSE [whole |-> 1, num |-> 0, den |-> 1]
       ELSE [whole |-> Len(cf_after) - 1, num |-> 0, den |-> 1]

\* The payback period before rounding: whole + num / den years.
\* Sequences are indexed from 1, numpy arrays from 0: numpy's index i is
\* position i + 1 here.
Payback(cf_after) ==
    LET cum == cumsum(cf_after)
        positive_indices == {t \in 1 .. Len(cf_after) : cum[t] >= 0}
    IN IF positive_indices # {}
       THEN LET p_idx == (CHOOSE t \in positive_indices :
                              \A u \in positive_indices : t <= u) - 1
            IN IF p_idx > 0
               THEN [whole |-> p_idx - 1, num |-> Abs(cum[p_idx]), den |-> cf_after[p_idx + 1]]
               ELSE [whole |-> 1, num |-> 0, den |-> 1]
       ELSE [whole |-> 99, num |-> 9, den |-> 10]

\* round(payback, 2), in 1/100 year (0 <= num <= den)
RoundPayback(pb) ==
    LET d1 == (pb.num * 10) \div pb.den
        r1 == (pb.num * 10) % pb.den
        d2 == (r1 * 10) \div pb.den
        r2 == (r1 * 10) % pb.den
    IN pb.whole * 100 + d1 * 10 + d2 + (IF 2 * r2 >= pb.den THEN 1 ELSE 0)

\* The dict get_metrics returns for a built ledger.
Metrics(ledger, total, interest) ==
    [ total_invest |-> RoundMoney(total),
      const_interest |-> RoundMoney(interest),
      irr_pre |-> RoundIrr(irr(Column(ledger, "Net_CF_Pre"))),
      irr_after |-> RoundIrr(irr(Column(ledger, "Net_CF_After"))),
      payback |-> RoundPayback(Payback(Column(ledger, "Net_CF_After"))) ]

\* ----------------------------------------------------------- export_*
\* The ledger-based export methods, each with the lengths of the columns it
\* hands to pd.DataFrame for a built ledger (n = OPERATION_PERIOD).
ExportMethods == {"export_revenue_tax_table", "export_total_cost_table",
                  "export_profit_table", "export_financial_cash_flow_table",
                  "export_project_investment_cashflow_table",
                  "export_capital_cashflow_table"}

ColumnLengths(m) ==
    LET n == OPERATION_PERIOD IN
    IF m \in {"export_revenue_tax_table", "export_total_cost_table", "export_profit_table"}
    THEN <<n, n, n, n, n, n, n>>
    ELSE IF m = "export_capital_cashflow_table"
    THEN <<1 + n, 1 + n + 1, 1 + n, n + 1, n + 1, 1 + n, 1 + n, 1 + n>>
    ELSE <<1 + n, 1 + n + 1, 1 + n + 1, 1 + n, 1 + n>>

\* ------------------------------------- the locals of calculate_cash_flow
IdleLoc ==
    [ pc |-> "idle", y |-> 0, current_deductible |-> 0, deductible_tax |-> 0,
      fixed_asset_value |-> 0, const_interest |-> 0, total_invest |-> 0,
      depreciation |-> << >>, df |-> << >>, pool |-> << >> ]

\* Lines 246-274: the locals when the loop is entered.  pool and depreciation
\* keep, period by period, the values current_deductible and depreciation took.
LoopEntry(p) ==
    LET self == Self(p)
        interest == _calc_construction_interest(self)
        deductible_tax == DeductibleTax(p, self)
    IN [ pc |-> "loop", y |-> 2,
         current_deductible |-> deductible_tax,
         deductible_tax |-> deductible_tax,
         fixed_asset_value |-> self.static_invest + interest - deductible_tax,
         const_interest |-> interest,
         total_invest |-> self.static_invest + interest + WorkingCapital(self),
         depreciation |-> << >>,
         df |-> InitialDf(self),
         pool |-> <<deductible_tax>> ]

\* The locals once the pass `it` of the loop body has written its row.
Advance(l, it) ==
    [l EXCEPT !.y = l.y + 1,
              !.current_deductible = it.current_deductible,
              !.depreciation = Append(l.depreciation, it.depreciation),
              !.df = [l.df EXCEPT ![l.y] = it.row],
              !.pool = Append(l.pool, it.current_deductible)]

\* Lines 276-369: the locals after one more pass of the loop.
LoopPass(p, l) ==
    Advance(l, Iteration(Self(p), l.fixed_asset_value, l.current_deductible, l.y))

RECURSIVE LoopFrom(_, _)
LoopFrom(p, l) ==
    IF l.y > OPERATION_PERIOD + 1 THEN l ELSE LoopFrom(p, LoopPass(p, l))

\* get_metrics on the instance a completed calculate_cash_flow leaves
MetricsOf(l) == Metrics(l.df, l.total_invest, l.const_interest)

\* The exception of a whole engine run on params (construction, ledger,
\* metrics), or "none" with the metrics it returns.
EngineRun(params) ==
    IF Validate(params) # "none" THEN [exc |-> Validate(params), metrics |-> << >>]
    ELSE IF params.deductible_tax.k = "bad"
    THEN [exc |-> "CalculationError", metrics |-> << >>]
    ELSE [exc |-> "none", metrics |-> <<MetricsOf(LoopFrom(params, LoopEntry(params)))>>]

\* ---------------------------------------------------- goal_seek_investment
\* target_irr is held in 1/1000 of a percentage point, a tenth of the digit
\* get_metrics reports.
TARGET_DEN == 1000 \div 100

\* p_temp of objective: lines 1208-1214
TrialParams(params, invest_guess) ==
    [params EXCEPT
       !.static_invest = Num(invest_guess),
       !.deductible_tax =
           IF params.deductible_tax.k = "missing"
           THEN DedNum(MulDiv(MulDiv(invest_guess, 100, 100 + VAT_RATE), VAT_RATE, 100))
           ELSE @]

\* metrics['IRR(pre-tax)'] - target_irr of an engine run: line 1219
Difference(run, target_irr) ==
    IF run.exc # "none" THEN [exc |-> run.exc, nan |-> FALSE, v |-> 0]
    ELSE IF run.metrics[1].irr_pre.nan THEN [exc |-> "none", nan |-> TRUE, v |-> 0]
    ELSE [exc |-> "none", nan |-> FALSE,
          v |-> run.metrics[1].irr_pre.v * TARGET_DEN - target_irr]

\* objective(invest_guess): lines 1207-1219
objective(params, target_irr, invest_guess) ==
    Difference(EngineRun(TrialParams(params, invest_guess)), target_irr)

\* objective that writes into params itself: p_temp = params
ObjectiveOnParams(params, invest_guess) == TrialParams(params, invest_guess)

\* the caller's params once objective(invest_guess) has run: the guess and the
\* injected deductible_tax go into p_temp, a copy (line 1208), of which
\* PVProject takes a copy of its own (line 131)
ParamsAfterObjective(params, invest_guess) == params

\* Caught with the handler of ValueError alone
CaughtValueError(exc) == exc = "ValueError"

\* except ValueError / except Exception (lines 1225-1230): every exception an
\* engine run or the root finder raises is one of these.
Caught(exc) == exc = "ValueError" \/ exc \in {"InputValidationError", "CalculationError"}

\* min_invest or Constants.MIN_INVEST
OrDefault(arg, default) == IF arg.has /\ arg.v # 0 THEN arg.v ELSE default * MONEY

\* ---------------------------------------------------- sensitivity_analysis
\* the keys of a parameter dict that hold a number and that PVProject reads
Keys == {"capacity_mw", "static_invest", "hours", "loan_rate", "capital_ratio",
         "price_tax_inc", "self_consumption_ratio", "retail_price", "feedin_price"}

\* the factor names the docstring lists (lines 1103-1111)
Supported == {"static_invest", "price", "price_tax_inc", "hours", "gen_hours",
              "retail_price", "feedin_price", "self_consumption_ratio"}

\* base_params.get(factor)
Lookup(params, factor) == IF factor \in Keys THEN params[factor] ELSE Missing

\* Lines 1120-1129: the base value; has = FALSE is None.
BaseValue(params, factor) ==
    IF Lookup(params, factor).has
    THEN [exc |-> "none", has |-> TRUE, v |-> Lookup(params, factor).v]
    ELSE IF factor \in {"price", "price_tax_inc"}
    THEN [exc |-> "none", has |-> params.price_tax_inc.has, v |-> params.price_tax_inc.v]
    ELSE IF factor \in {"hours", "gen_hours"}
    THEN [exc |-> "none", has |-> TRUE, v |-> Get(params.hours, 1000)]
    ELSE [exc |-> "ValueError", has |-> FALSE, v |-> 0]

\* Offset with the upper end of the range left out
OffsetHalfOpen(variation_range, steps, i) ==
    [num |-> variation_range * (2 * (i - 1) - steps), den |-> steps]

\* np.linspace(-variation_range, variation_range, steps)[i - 1], as the
\* fraction num / den of 1/1000: variation_range is held in 1/1000.
Offset(variation_range, steps, i) ==
    IF steps = 1 THEN [num |-> -variation_range, den |-> 1]
    ELSE [num |-> variation_range * (2 * (i - 1) - (steps - 1)), den |-> steps - 1]

\* new_value = base_value * (1 + var)
NewValue(base_value, var) ==
    MulDiv(base_value, 1000 * var.den + var.num, 1000 * var.den)

\* f'{var*100:+.1f}%': the offset to the nearest 1/1000, as the label shows it
Label(var) ==
    IF var.num >= 0 THEN (2 * var.num + var.den) \div (2 * var.den)
    ELSE -((2 * (-var.num) + var.den) \div (2 * var.den))

\* SetFactor that files the new value under the alias of the factor
SetFactorAliased(params, factor, new_value) ==
    IF factor \in Keys \ {"hours", "price_tax_inc"}
    THEN [params EXCEPT ![factor] = Num(new_value)]
    ELSE params

\* params_temp[factor] = new_value: a key PVProject does not read changes
\* nothing of what it computes.
SetFactor(params, factor, new_value) ==
    IF factor \in Keys THEN [params EXCEPT ![factor] = Num(new_value)] ELSE params

\* base_params once an offset has been run: the new value goes into
\* params_temp, a copy (line 1135)
BaseParamsAfter(params, factor, new_value) == params

\* SweepCaught with a handler for validation errors alone
SweepCaughtValidation(exc) == exc = "InputValidationError"

\* except Exception (line 1156)
SweepCaught(exc) == exc \in {"ValueError", "TypeError", "InputValidationError",
                             "CalculationError"}

\* Lines 1143-1165: the row of one offset.  In the DataFrame a None among
\* numbers is nan.
SweepRow(run, var, new_value) ==
    [ var |-> var, label |-> Label(var), value |-> new_value,
      failed |-> run.exc # "none",
      irr |-> IF run.exc # "none" THEN NanValue ELSE run.metrics[1].irr_pre ]

\* Lines 1169-1174.  No label is '0.0%', for the format writes a sign: the
\* base is the row at len(df) // 2.  A coefficient is a / b / (l / 1000), or
\* nan (0 / 0 and x / 0 of numpy floats raise nothing).
Coefficient(row, base_irr) ==
    IF row.irr.nan \/ base_irr.nan \/ base_irr.v = 0 \/ row.label = 0
    THEN [nan |-> TRUE, a |-> 0, b |-> 1, l |-> 1]
    ELSE [nan |-> FALSE, a |-> row.irr.v - base_irr.v, b |-> base_irr.v, l |-> row.label]

NotNa(rows) == Cardinality({i \in 1 .. Len(rows) : ~rows[i].irr.nan})

SweepTable(rows) ==
    IF Len(rows) > 0 /\ NotNa(rows) >= 2
    THEN [ rows |-> rows, has_coefficient |-> TRUE,
           coefficient |-> [i \in 1 .. Len(rows) |->
                               Coefficient(rows[i], rows[Len(rows) \div 2 + 1].irr)] ]
    ELSE [ rows |-> rows, has_coefficient |-> FALSE, coefficient |-> << >> ]

\* ================================================================ state
VARIABLES
    inst,            \* "absent", or "ready": a PVProject has been constructed
    p,               \* self.p
    df,              \* self.df: << >> (None) or the ledger, one row per period
    total_invest,    \* self.total_invest
    const_interest,  \* self.const_interest
    loc,             \* the locals of the running (or last) calculate_cash_flow
    last,            \* the call that ended last, or is running
    raised,          \* the exception that call raised, or "none"
    cause,           \* the exception it was raised from (__cause__), or "none"
    metrics,         \* what get_metrics returned: << >> or <<dict>>
    table,           \* what an export method returned: << >> or <<column lengths>>
    built,           \* calculate_cash_flow has completed on this instance
    failed,          \* the calls of calculate_cash_flow on it that raised
    gs,              \* the call of goal_seek_investment
    sa               \* the call of sensitivity_analysis

vars == <<inst, p, df, total_invest, const_interest, loc, last, raised, cause, metrics,
          table, built, failed, gs, sa>>

None == << >>

NoParams ==
    [ capacity_mw |-> Missing, static_invest |-> Missing, hours |-> Missing,
      loan_rate |-> Missing, capital_ratio |-> Missing, mode |-> "missing",
      price_tax_inc |-> Missing, deductible_tax |-> DedMissing,
      self_consumption_ratio |-> Missing, retail_price |-> Missing,
      feedin_price |-> Missing ]

IdleGs ==
    [ pc |-> "idle", params |-> NoParams, target_irr |-> 0, a |-> 0, b |-> 0,
      fa |-> 0, fb |-> 0, exc |-> "none", propagated |-> "none", result |-> None ]

IdleSa ==
    [ pc |-> "idle", params |-> NoParams, factor |-> "", variation_range |-> 0,
      steps |-> 0, base |-> Missing, i |-> 0, rows |-> << >>, exc |-> "none",
      table |-> None ]

\* ------------------------------------------------------------- the inputs
\* how many failing calls of calculate_cash_flow one instance is given
MaxFailed == 2

ValidFullGrid ==
    [ capacity_mw : {Num(1), Num(2)},
      static_invest : {Num(400 * MONEY), Num(800 * MONEY)},
      hours : {Missing, Num(1500)},
      loan_rate : {Num(5000)},
      capital_ratio : {Num(20), Num(100)},
      mode : {"missing"},
      price_tax_inc : {Num(400), Num(-600)},
      deductible_tax : {DedMissing, DedNum(40 * MONEY), DedNum(-5 * MONEY), DedBad},
      self_consumption_ratio : {Missing},
      retail_price : {Missing},
      feedin_price : {Missing} ]

SelfConsumption ==
    [ capacity_mw : {Num(1)},
      static_invest : {Num(400 * MONEY)},
      hours : {Missing},
      loan_rate : {Missing},
      capital_ratio : {Num(20)},
      mode : {MODE_SELF_CONSUMPTION},
      price_tax_inc : {Missing},
      deductible_tax : {DedMissing, DedNum(40 * MONEY)},
      self_consumption_ratio : {Missing, Num(0), Num(80), Num(100), Num(120)},
      retail_price : {Num(800)},
      feedin_price : {Num(400)} ]

BaseParams ==
    [ NoParams EXCEPT !.capacity_mw = Num(1), !.static_invest = Num(400 * MONEY),
                      !.hours = Num(1500), !.loan_rate = Num(5000),
                      !.capital_ratio = Num(20), !.price_tax_inc = Num(400) ]

\* the project of demo_qionghai_project
Qionghai ==
    [ NoParams EXCEPT !.capacity_mw = Num(100), !.static_invest = Num(40000 * MONEY),
                      !.hours = Num(1500), !.loan_rate = Num(4876),
                      !.capital_ratio = Num(20), !.price_tax_inc = Num(400),
                      !.deductible_tax = DedNum(4000 * MONEY) ]

Rejected ==
    { [BaseParams EXCEPT !.capacity_mw = Num(0)],
      [BaseParams EXCEPT !.capacity_mw = Missing],
      [BaseParams EXCEPT !.static_invest = Num(0)],
      [BaseParams EXCEPT !.hours = Num(0)],
      [BaseParams EXCEPT !.capital_ratio = Num(0)],
      [BaseParams EXCEPT !.capital_ratio = Num(120)],
      [BaseParams EXCEPT !.mode = "hybrid"],
      [BaseParams EXCEPT !.price_tax_inc = Missing] }

ParamInputs == ValidFullGrid \cup SelfConsumption \cup Rejected \cup {Qionghai}

\* goal_seek_investment(target_irr, params, min_invest, max_invest)
GoalSeekParams ==
    { [BaseParams EXCEPT !.deductible_tax = d] :
          d \in {DedMissing, DedNum(40 * MONEY), DedBad} }
    \cup { [BaseParams EXCEPT !.price_tax_inc = Missing] }

GoalSeekTargets == {8000, 8004, 90000}

GoalSeekBrackets ==
    { [min_invest |-> Missing, max_invest |-> Missing],
      [min_invest |-> Num(300 * MONEY), max_invest |-> Num(900 * MONEY)],
      [min_invest |-> Num(-(100 * MONEY)), max_invest |-> Num(900 * MONEY)] }

\* sensitivity_analysis(base_params, factor, variation_range, steps)
SelfConsumptionBase ==
    [ NoParams EXCEPT !.capacity_mw = Num(1), !.static_invest = Num(400 * MONEY),
                      !.hours = Num(1500), !.loan_rate = Num(5000),
                      !.capital_ratio = Num(20), !.mode = MODE_SELF_CONSUMPTION,
                      !.self_consumption_ratio = Num(95), !.retail_price = Num(800),
                      !.feedin_price = Num(400) ]

SweepParams ==
    { BaseParams, Qionghai, SelfConsumptionBase,
      [BaseParams EXCEPT !.hours = Missing],
      [BaseParams EXCEPT !.deductible_tax = DedBad],
      [SelfConsumptionBase EXCEPT !.self_consumption_ratio = Num(105)] }

SweepFactors == Supported \cup {"loan_rate", "capital_ratio", "tariff"}

SweepRanges == {100, 150, -100}

SweepSteps == {0, 1, 2, 4, 5}

Init ==
    /\ inst = "absent"
    /\ p = NoParams
    /\ df = None
    /\ total_invest = 0
    /\ const_interest = 0
    /\ loc = IdleLoc
    /\ last = "start"
    /\ raised = "none"
    /\ cause = "none"
    /\ metrics = None
    /\ table = None
    /\ built = FALSE
    /\ failed = 0
    /\ gs = IdleGs
    /\ sa = IdleSa

\* No call is running, and the session is one on a PVProject.
Idle == loc.pc = "idle" /\ gs.pc = "idle" /\ sa.pc = "idle"

\* ------------------------------------------------- PVProject.__init__
\* project = PVProject(params): on a validation error no instance comes to
\* be and the caller keeps the one it had.
Construct ==
    /\ Idle
    /\ \E params \in ParamInputs :
         /\ last' = "PVProject"
         /\ cause' = "none"
         /\ raised' = Validate(params)
         /\ metrics' = None
         /\ table' = None
         /\ IF Validate(params) = "none"
            THEN /\ inst' = "ready"
                 /\ p' = params
                 /\ df' = None
                 /\ total_invest' = 0
                 /\ const_interest' = 0
                 /\ built' = FALSE
                 /\ failed' = 0
                 /\ loc' = IdleLoc
            ELSE UNCHANGED <<inst, p, df, total_invest, const_interest, built, failed,
                             loc>>
    /\ UNCHANGED <<gs, sa>>

\* CalcBegin with the ledger stored on the instance as soon as it is laid out
CalcBeginStoresLedger ==
    /\ loc.pc = "idle" /\ gs.pc = "idle" /\ sa.pc = "idle"
    /\ inst = "ready"
    /\ last' = "calculate_cash_flow"
    /\ cause' = IF p.deductible_tax.k = "bad" THEN "TypeError" ELSE "none"
    /\ metrics' = << >>
    /\ table' = << >>
    /\ df' = InitialDf(Self(p))
    /\ IF p.deductible_tax.k = "bad"
       THEN /\ failed < MaxFailed
            /\ failed' = failed + 1
            /\ raised' = "CalculationError"
            /\ loc' = IdleLoc
       ELSE /\ raised' = "none"
            /\ loc' = LoopEntry(p)
            /\ UNCHANGED failed
    /\ UNCHANGED <<inst, p, total_invest, const_interest, built, gs, sa>>

\* CalcBegin with the deduction pool of the run before carried over
CalcBeginKeepsPool ==
    /\ loc.pc = "idle" /\ gs.pc = "idle" /\ sa.pc = "idle"
    /\ inst = "ready"
    /\ last' = "calculate_cash_flow"
    /\ cause' = IF p.deductible_tax.k = "bad" THEN "TypeError" ELSE "none"
    /\ metrics' = << >>
    /\ table' = << >>
    /\ IF p.deductible_tax.k = "bad"
       THEN /\ failed < MaxFailed
            /\ failed' = failed + 1
            /\ raised' = "CalculationError"
            /\ loc' = IdleLoc
       ELSE /\ raised' = "none"
            /\ loc' = IF built
                      THEN [LoopEntry(p) EXCEPT !.current_deductible = loc.current_deductible,
                                                !.pool = <<loc.current_deductible>>]
                      ELSE LoopEntry(p)
            /\ UNCHANGED failed
    /\ UNCHANGED <<inst, p, df, total_invest, const_interest, built, gs, sa>>

\* CalcBegin whose handler raises CalculationError without `from e`
CalcBeginBareRaise ==
    /\ loc.pc = "idle" /\ gs.pc = "idle" /\ sa.pc = "idle"
    /\ inst = "ready"
    /\ last' = "calculate_cash_flow"
    /\ cause' = "none"
    /\ metrics' = << >>
    /\ table' = << >>
    /\ IF p.deductible_tax.k = "bad"
       THEN /\ failed < MaxFailed
            /\ failed' = failed + 1
            /\ raised' = "CalculationError"
            /\ loc' = IdleLoc
       ELSE /\ raised' = "none"
            /\ loc' = LoopEntry(p)
            /\ UNCHANGED failed
    /\ UNCHANGED <<inst, p, df, total_invest, const_interest, built, gs, sa>>

\* ------------------------------------------------ calculate_cash_flow
\* Lines 244-274: the construction period, up to the loop.  Arithmetic on a
\* deductible_tax that is no number raises at line 274, and the handler of
\* line 378 turns it into CalculationError.
CalcBegin ==
    /\ Idle
    /\ inst = "ready"
    /\ last' = "calculate_cash_flow"
    /\ cause' = IF p.deductible_tax.k = "bad" THEN "TypeError" ELSE "none"
    /\ metrics' = None
    /\ table' = None
    /\ IF p.deductible_tax.k = "bad"
       THEN /\ failed < MaxFailed
            /\ failed' = failed + 1
            /\ raised' = "CalculationError"
            /\ loc' = IdleLoc
       ELSE /\ raised' = "none"
            /\ loc' = LoopEntry(p)
            /\ UNCHANGED failed
    /\ UNCHANGED <<inst, p, df, total_invest, const_interest, built, gs, sa>>

\* One pass of the loop of line 276.
CalcStep ==
    /\ loc.pc = "loop"
    /\ loc.y <= OPERATION_PERIOD + 1
    /\ loc' = LoopPass(p, loc)
    /\ UNCHANGED <<inst, p, df, total_invest, const_interest, last, raised, cause, metrics,
                   table, built, failed, gs, sa>>

\* Lines 371-376: the ledger and the totals are stored and df returned.
CalcReturn ==
    /\ loc.pc = "loop"
    /\ loc.y = OPERATION_PERIOD + 2
    /\ df' = loc.df
    /\ total_invest' = loc.total_invest
    /\ const_interest' = loc.const_interest
    /\ built' = TRUE
    /\ loc' = [loc EXCEPT !.pc = "idle"]
    /\ UNCHANGED <<inst, p, last, raised, cause, metrics, table, failed, gs, sa>>

\* ------------------------------------------------------------ get_metrics
GetMetrics ==
    /\ Idle
    /\ inst = "ready"
    /\ last' = "get_metrics"
    /\ cause' = "none"
    /\ table' = None
    /\ IF df = None
       THEN /\ raised' = "CalculationError"
            /\ metrics' = None
       ELSE /\ raised' = "none"
            /\ metrics' = <<Metrics(df, total_invest, const_interest)>>
    /\ UNCHANGED <<inst, p, df, total_invest, const_interest, loc, built, failed, gs, sa>>

\* ----------------------------------------------------------- export_*
\* pd.DataFrame raises ValueError when its columns differ in length.
Export ==
    /\ Idle
    /\ inst = "ready"
    /\ \E m \in ExportMethods :
         /\ last' = m
         /\ cause' = "none"
         /\ metrics' = None
         /\ IF df = None
            THEN /\ raised' = "CalculationError"
                 /\ table' = None
            ELSE IF \E i, j \in DOMAIN ColumnLengths(m) :
                        ColumnLengths(m)[i] # ColumnLengths(m)[j]
            THEN /\ raised' = "ValueError"
                 /\ table' = None
            ELSE /\ raised' = "none"
                 /\ table' = <<ColumnLengths(m)>>
    /\ UNCHANGED <<inst, p, df, total_invest, const_interest, loc, built, failed, gs, sa>>

\* ---------------------------------------------------- goal_seek_investment
\* The call ends: what was raised inside the try block is caught, or leaves
\* the function.
GoalSeekEnd(g, exc, result) ==
    [g EXCEPT !.pc = "done", !.exc = exc,
              !.propagated = IF Caught(exc) THEN "none" ELSE exc,
              !.result = IF exc = "none" THEN result ELSE None]

\* optimize.brentq, entered: f at both ends of the bracket.  An exception of f
\* ends the search; so does f = nan (ValueError), a root at an end, or two
\* ends of the same sign (ValueError).
GoalSeekCall ==
    /\ Idle
    /\ inst = "absent"
    /\ \E params \in GoalSeekParams, target_irr \in GoalSeekTargets,
          br \in GoalSeekBrackets :
         LET min_inv == OrDefault(br.min_invest, MIN_INVEST)
             max_inv == OrDefault(br.max_invest, MAX_INVEST)
             g0 == [IdleGs EXCEPT !.params = params, !.target_irr = target_irr,
                                 !.a = min_inv, !.b = max_inv]
             after_a == ParamsAfterObjective(params, min_inv)
             after_b == ParamsAfterObjective(after_a, max_inv)
         IN \E fa \in {objective(params, target_irr, min_inv)},
               fb \in {objective(after_a, target_irr, max_inv)},
               g \in {[g0 EXCEPT !.params = after_b]} :
            gs' =
              IF fa.exc # "none" THEN GoalSeekEnd(g, fa.exc, None)
              ELSE IF fb.exc # "none" THEN GoalSeekEnd(g, fb.exc, None)
              ELSE IF fa.nan \/ fb.nan THEN GoalSeekEnd(g, "ValueError", None)
              ELSE IF fa.v = 0 THEN GoalSeekEnd(g, "none", <<min_inv>>)
              ELSE IF fb.v = 0 THEN GoalSeekEnd(g, "none", <<max_inv>>)
              ELSE IF (fa.v > 0) = (fb.v > 0) THEN GoalSeekEnd(g, "ValueError", None)
              ELSE [g EXCEPT !.pc = "run", !.fa = fa.v, !.fb = fb.v]
    /\ last' = "goal_seek_investment"
    /\ UNCHANGED <<inst, p, df, total_invest, const_interest, loc, raised, cause, metrics,
                   table, built, failed, sa>>

\* One step of the root finder: f in the middle of the bracket.  The search
\* ends on an exception, on f = 0, and when the bracket is down to the
\* resolution of an amount, with the end where |f| is smaller.
GoalSeekStep ==
    /\ gs.pc = "run"
    /\ IF gs.b - gs.a <= 1
       THEN \E x \in {gs.a, gs.b} :
              /\ (x = gs.a) => Abs(gs.fa) <= Abs(gs.fb)
              /\ (x = gs.b) => Abs(gs.fb) <= Abs(gs.fa)
              /\ gs' = GoalSeekEnd(gs, "none", <<x>>)
       ELSE LET mid == (gs.a + gs.b) \div 2 IN
            \E fm \in {objective(gs.params, gs.target_irr, mid)},
               g \in {[gs EXCEPT !.params = ParamsAfterObjective(gs.params, mid)]} :
            gs' =
                 IF fm.exc # "none" THEN GoalSeekEnd(g, fm.exc, None)
                 ELSE IF fm.nan THEN GoalSeekEnd(g, "ValueError", None)
                 ELSE IF fm.v = 0 THEN GoalSeekEnd(g, "none", <<mid>>)
                 ELSE IF (fm.v > 0) = (gs.fa > 0)
                      THEN [g EXCEPT !.a = mid, !.fa = fm.v]
                      ELSE [g EXCEPT !.b = mid, !.fb = fm.v]
    /\ UNCHANGED <<inst, p, df, total_invest, const_interest, loc, last, raised, cause,
                   metrics, table, built, failed, sa>>

\* ---------------------------------------------------- sensitivity_analysis
\* Lines 1117-1132: the base value, and the offsets.  An unknown factor raises
\* ValueError.
SensitivityCall ==
    /\ Idle
    /\ inst = "absent"
    /\ \E params \in SweepParams, factor \in SweepFactors,
          variation_range \in SweepRanges, steps \in SweepSteps :
         \E base \in {BaseValue(params, factor)} :
            sa' = IF base.exc # "none"
                  THEN [IdleSa EXCEPT !.pc = "done", !.params = params,
                                      !.factor = factor, !.exc = base.exc,
                                      !.variation_range = variation_range,
                                      !.steps = steps]
                  ELSE [IdleSa EXCEPT !.pc = "loop", !.params = params,
                                      !.factor = factor, !.i = 1,
                                      !.variation_range = variation_range,
                                      !.steps = steps,
                                      !.base = [has |-> base.has, v |-> base.v]]
    /\ last' = "sensitivity_analysis"
    /\ UNCHANGED <<inst, p, df, total_invest, const_interest, loc, raised, cause, metrics,
                   table, built, failed, gs>>

\* Lines 1134-1165: one offset.  None * (1 + var) raises TypeError outside
\* the try block; what the engine run raises is caught and leaves a row.
SensitivityStep ==
    /\ sa.pc = "loop"
    /\ sa.i <= sa.steps
    /\ IF ~sa.base.has
       THEN sa' = [sa EXCEPT !.pc = "done", !.exc = "TypeError"]
       ELSE \E var \in {Offset(sa.variation_range, sa.steps, sa.i)} :
            \E new_value \in {NewValue(sa.base.v, var)} :
            \E run \in {EngineRun(SetFactor(sa.params, sa.factor, new_value))} :
            \E after \in {BaseParamsAfter(sa.params, sa.factor, new_value)} :
               sa' = IF run.exc # "none" /\ ~SweepCaught(run.exc)
                     THEN [sa EXCEPT !.pc = "done", !.exc = run.exc, !.params = after]
                     ELSE [sa EXCEPT !.i = sa.i + 1, !.params = after,
                                     !.rows = Append(sa.rows,
                                                     SweepRow(run, var, new_value))]
    /\ UNCHANGED <<inst, p, df, total_invest, const_interest, loc, last, raised, cause,
                   metrics, table, built, failed, gs>>

\* Lines 1166-1177: the table, with the coefficients.
SensitivityReturn ==
    /\ sa.pc = "loop"
    /\ sa.i = sa.steps + 1
    /\ sa' = [sa EXCEPT !.pc = "done", !.table = <<SweepTable(sa.rows)>>]
    /\ UNCHANGED <<inst, p, df, total_invest, const_interest, loc, last, raised, cause,
                   metrics, table, built, failed, gs>>

Next ==
    \/ Construct
    \/ CalcBegin
    \/ CalcStep
    \/ CalcReturn
    \/ GetMetrics
    \/ Export
    \/ GoalSeekCall
    \/ GoalSeekStep
    \/ SensitivityCall
    \/ SensitivityStep
    \/ SensitivityReturn

Spec == Init /\ [][Next]_vars

\* ------------------------------------------------------------ properties
\* The operating periods the running (or last) calculate_cash_flow has
\* written so far.
Written == 2 .. (loc.y - 1)

\* the working capital of the instance: 3 wan-yuan per MW
WorkingCapitalOfP == p.capacity_mw.v * 3 * MONEY

\* C1: from one period to the next the deduction pool never grows, it is
\* never negative, and once it is zero it stays zero, whatever deductible_tax
\* and prices the constructor accepted.
DeductionPoolContract ==
    \A i \in 1 .. Len(loc.pool) :
        /\ loc.pool[i] >= 0
        /\ i > 1 => /\ loc.pool[i] <= loc.pool[i - 1]
                    /\ loc.pool[i - 1] = 0 => loc.pool[i] = 0

ConstructionRow(ledger) ==
    /\ ledger[1]["Net_CF_Pre"] = -(p.static_invest.v + WorkingCapitalOfP)
    /\ ledger[1]["Net_CF_After"] = ledger[1]["Net_CF_Pre"]
    /\ \A c \in Cols \ {"Net_CF_Pre", "Net_CF_After"} : ledger[1][c] = 0

\* C2: in period 1 of the ledger the pre-tax and the after-tax net cash flow
\* are both -(static_invest + 3 * capacity_mw), with no construction interest
\* in it, and every other column of that period is zero.
ConstructionPeriodRow ==
    /\ df # None => ConstructionRow(df)
    /\ loc.pc = "loop" => ConstructionRow(loc.df)

ConstructionPeriodRowReached ==
    /\ built
    /\ const_interest > 0
    /\ df[1]["Net_CF_Pre"] = -(p.static_invest.v + WorkingCapitalOfP)

OperatingRow(r, y) ==
    LET terminal == IF y = OPERATION_PERIOD + 1
                    THEN p.static_invest.v \div 20 + WorkingCapitalOfP
                    ELSE 0
    IN /\ r["Net_CF_Pre"] = r["Revenue_Exc"] - r["OM_Cost"] - r["Surtax"] + terminal
       /\ r["Net_CF_After"] = r["Net_CF_Pre"] - r["Income_Tax"]

\* C3: residual value (5% of static_invest) and working capital come back as
\* inflow in the last period, 26, and in no other: every operating period's
\* pre-tax flow is revenue - O&M - surtax, plus that inflow in period 26, and
\* the after-tax flow is the pre-tax flow less income tax.
TerminalInflowOnce ==
    /\ \A y \in Written : OperatingRow(loc.df[y], y)
    /\ df # None => \A y \in 2 .. (OPERATION_PERIOD + 1) : OperatingRow(df[y], y)

TerminalInflowOnceReached ==
    /\ built
    /\ p.static_invest.v \div 20 > 0
    /\ df[OPERATION_PERIOD + 1]["Net_CF_Pre"]
         = df[OPERATION_PERIOD]["Net_CF_Pre"] + p.static_invest.v \div 20
           + WorkingCapitalOfP

\* the profit of the written period y, from its row and its depreciation
ProfitOf(y) ==
    loc.df[y]["Revenue_Exc"] - loc.df[y]["OM_Cost"] - loc.df[y]["Surtax"]
    - loc.depreciation[y - 1]

\* the income-tax rate of an operating year, in per-mille: three years
\* exempt, three at half of 25%, then 25%
HolidayRate(op_year) == IF op_year <= 3 THEN 0 ELSE IF op_year <= 6 THEN 125 ELSE 250

\* C4: the income tax of an operating year is max(0, profit * rate) with
\* profit = revenue - O&M - surtax - depreciation and the rate 0 in years 1-3,
\* 12.5% in years 4-6 and 25% from year 7: zero in the first three years
\* whatever the profit, and never negative.
IncomeTaxHoliday ==
    \A y \in Written :
        /\ loc.df[y]["Income_Tax"] = Max(0, MulDiv(ProfitOf(y), HolidayRate(y - 1), 1000))
        /\ y - 1 <= 3 => loc.df[y]["Income_Tax"] = 0
        /\ loc.df[y]["Income_Tax"] >= 0
        /\ (df # None /\ loc.pc = "idle") => df[y] = loc.df[y]

IncomeTaxHolidayReached ==
    /\ built
    /\ loc.pc = "idle"
    /\ \E y \in Written : y - 1 >= 7 /\ ProfitOf(y) > 0 /\ df[y]["Income_Tax"] > 0
    /\ \E y \in Written : y - 1 <= 3 /\ ProfitOf(y) > 0 /\ df[y]["Income_Tax"] = 0

RECURSIVE SumTo(_, _)
SumTo(seq, n) == IF n = 0 THEN 0 ELSE SumTo(seq, n - 1) + seq[n]

\* 95% of (static_invest + construction interest - initial deductible tax)
DepreciableAmount ==
    MulDiv(p.static_invest.v + loc.const_interest - loc.deductible_tax, 95, 100)

\* C5: depreciation is the same amount in each of the operating years 1-20
\* and zero in years 21-25, and the 20 amounts add up to 95% of
\* (static_invest + construction interest - initial deductible tax); the sum
\* is exact up to the resolution of an amount in each of the 20 years.
StraightLineDepreciation ==
    /\ \A op_year \in 1 .. Len(loc.depreciation) :
          /\ op_year <= 20 => loc.depreciation[op_year] = loc.depreciation[1]
          /\ op_year > 20 => loc.depreciation[op_year] = 0
    /\ Len(loc.depreciation) >= 20 =>
          /\ SumTo(loc.depreciation, 20) <= DepreciableAmount
          /\ DepreciableAmount - SumTo(loc.depreciation, 20) < 20
    /\ Len(loc.depreciation) = OPERATION_PERIOD =>
          SumTo(loc.depreciation, OPERATION_PERIOD) = SumTo(loc.depreciation, 20)

StraightLineDepreciationReached ==
    /\ built
    /\ Len(loc.depreciation) = OPERATION_PERIOD
    /\ loc.depreciation[20] > 0
    /\ loc.depreciation[21] = 0
    /\ loc.const_interest > 0 /\ loc.deductible_tax > 0

\* C6: when goal_seek_investment returns an amount x, a project built from
\* params with static_invest = x has a reported pre-tax IRR within 1e-3
\* percentage points of target_irr.
GoalSeekInverse ==
    (gs.pc = "done" /\ gs.result # None) =>
        \E d \in {objective(gs.params, gs.target_irr, gs.result[1])} :
            /\ d.exc = "none"
            /\ ~d.nan
            /\ Abs(d.v) <= 1

\* C7: goal_seek_investment never lets an exception out: when an engine run
\* or the root finder raises, for no sign change over the bracket, for an
\* invalid trial input or for a failing calculation, it returns None; it
\* returns an amount when nothing was raised.
GoalSeekNeverRaises ==
    gs.pc = "done" =>
        /\ gs.propagated = "none"
        /\ gs.exc # "none" => gs.result = None
        /\ gs.exc = "none" => gs.result # None

GoalSeekNeverRaisesReached ==
    /\ gs.pc = "done"
    /\ gs.exc = "CalculationError"
    /\ gs.propagated = "none"
    /\ gs.result = None

\* the after-tax flows of the stored ledger, and their running sum
AfterTax == Column(df, "Net_CF_After")

Cumulative == cumsum(AfterTax)

\* the first period, numbered as in the ledger, where the running sum is
\* not negative; 0 when there is none
FirstRecovered ==
    IF \E t \in 1 .. Len(df) : Cumulative[t] >= 0
    THEN CHOOSE t \in 1 .. Len(df) :
             Cumulative[t] >= 0 /\ \A u \in 1 .. (t - 1) : Cumulative[u] < 0
    ELSE 0

\* C8: with k > 1 the first period, numbered 1..26 as in the ledger, where
\* the cumulative after-tax flow is not negative, the payback period
\* get_metrics returns is (k - 1) + |cumulative[k-1]| / after_tax[k], rounded
\* to 2 decimals.
PaybackInterpolation ==
    (last = "get_metrics" /\ metrics # None /\ FirstRecovered > 1) =>
        metrics[1].payback =
            RoundPayback([whole |-> FirstRecovered - 1,
                          num |-> Abs(Cumulative[FirstRecovered - 1]),
                          den |-> AfterTax[FirstRecovered]])

\* C9: when the cumulative after-tax flow is negative in every period,
\* get_metrics returns, raising nothing, with the payback period 99.9; and
\* 99.9 is returned in that case only.
PaybackSentinel ==
    (last = "get_metrics" /\ df # None) =>
        /\ raised = "none"
        /\ metrics # None
        /\ metrics[1].payback = 9990 <=> FirstRecovered = 0

PaybackSentinelReached ==
    /\ last = "get_metrics"
    /\ metrics # None
    /\ FirstRecovered = 0
    /\ metrics[1].payback = 9990

\* C10: on an instance where calculate_cash_flow has not completed, not
\* called or only called and failed, self.df is None, and get_metrics and the
\* ledger-based export methods raise CalculationError and return nothing.
NoLedgerNoResult ==
    ~built =>
        /\ df = None
        /\ (last = "get_metrics" \/ last \in ExportMethods) =>
              /\ raised = "CalculationError"
              /\ metrics = None
              /\ table = None

NoLedgerNoResultReached ==
    /\ ~built
    /\ failed > 0
    /\ last = "get_metrics"
    /\ raised = "CalculationError"
    /\ metrics = None

\* the constraints on a parameter dict: capacity, investment and hours above
\* zero, capital ratio in (0, 1], a known mode with its keys, and the
\* self-consumption ratio in [0, 1]
Constraints(params) ==
    /\ params.capacity_mw.has /\ params.capacity_mw.v > 0
    /\ params.static_invest.has /\ params.static_invest.v > 0
    /\ params.hours.has => params.hours.v > 0
    /\ params.capital_ratio.has => params.capital_ratio.v \in 1 .. 100
    /\ params.mode \in {"missing", "full_grid", "self_consumption"}
    /\ params.mode # "self_consumption" => params.price_tax_inc.has
    /\ params.mode = "self_consumption" =>
          /\ params.self_consumption_ratio.has
          /\ params.retail_price.has
          /\ params.feedin_price.has
          /\ params.self_consumption_ratio.v \in 0 .. 100

\* C11: the constructor raises InputValidationError, and nothing else, for
\* parameters that break a constraint, and before anything is computed: an
\* instance exists, a ledger is built and a sweep row has a return only for
\* parameters that satisfy every constraint.
ValidatedConstruction ==
    /\ inst = "ready" => Constraints(p)
    /\ df # None => Constraints(p)
    /\ last = "PVProject" =>
          /\ raised \in {"none", "InputValidationError"}
          /\ metrics = None /\ table = None
          /\ raised = "InputValidationError" => loc.pc = "idle"
    /\ \A i \in 1 .. Len(sa.rows) :
          ~Constraints(SetFactor(sa.params, sa.factor, sa.rows[i].value))
              => sa.rows[i].failed

ValidatedConstructionReached ==
    /\ last = "PVProject"
    /\ raised = "InputValidationError"
    /\ inst = "absent"
    /\ df = None

\* C12: sensitivity_analysis called with a factor name that is not among the
\* supported ones ends with InputValidationError, before any engine run,
\* whether or not the parameters hold a key of that name.
UnknownFactorRejected ==
    (sa.pc # "idle" /\ sa.factor \notin Supported) =>
        /\ sa.pc = "done"
        /\ sa.exc = "InputValidationError"
        /\ sa.rows = << >>
        /\ sa.table = None

\* the engine run of the offset of row i of the sweep
RunOfRow(i) == EngineRun(SetFactor(sa.params, sa.factor, sa.rows[i].value))

\* C13: in a sweep an offset whose engine run raises leaves a row with a
\* missing return and the sweep goes on: the call raises nothing and returns
\* a table with a row for every offset, whichever offsets fail, the middle
\* one or all of them included.
SweepSurvivesFailures ==
    /\ (sa.pc = "done" /\ sa.base.has) =>
          /\ sa.exc = "none"
          /\ sa.table # None
          /\ Len(sa.table[1].rows) = sa.steps
          /\ sa.table[1].rows = sa.rows
    /\ (sa.pc = "loop" /\ sa.base.has) => Len(sa.rows) = sa.i - 1
    /\ \A i \in 1 .. Len(sa.rows) : sa.rows[i].failed => sa.rows[i].irr.nan
    /\ (sa.pc = "loop" /\ sa.rows # << >>) =>
          (sa.rows[Len(sa.rows)].failed <=> RunOfRow(Len(sa.rows)).exc # "none")

SweepSurvivesFailuresReached ==
    /\ sa.pc = "done"
    /\ sa.table # None
    /\ sa.steps = 5
    /\ ~sa.rows[1].failed /\ ~sa.rows[2].failed
    /\ sa.rows[3].failed /\ sa.rows[5].failed

\* a sweep where the engine run of every offset raised
SweepAllFailedReached ==
    /\ sa.pc = "done"
    /\ sa.table # None
    /\ sa.steps = 5
    /\ \A i \in 1 .. 5 : sa.rows[i].failed

\* The rows of a returned table are as many as steps, in ascending order of
\* offset, evenly spaced, from -variation_range to +variation_range, each
\* with the value base_value * (1 + offset).  Offsets of one sweep share
\* their denominator.
OffsetsEven(rows) ==
    /\ Len(rows) = sa.steps
    /\ \A i \in 1 .. Len(rows) :
          /\ rows[i].var.den = rows[1].var.den
          /\ rows[i].var.den > 0
          /\ rows[i].value = MulDiv(sa.base.v, 1000 * rows[i].var.den + rows[i].var.num,
                                    1000 * rows[i].var.den)
    /\ \A i \in 1 .. (Len(rows) - 1) : rows[i].var.num <= rows[i + 1].var.num
    /\ \A i \in 2 .. (Len(rows) - 1) :
          rows[i + 1].var.num - rows[i].var.num = rows[2].var.num - rows[1].var.num
    /\ Len(rows) >= 1 =>
          /\ rows[1].var.num = -sa.variation_range * rows[1].var.den
          /\ rows[Len(rows)].var.num = sa.variation_range * rows[1].var.den

\* C14 as stated: sensitivity_analysis produces exactly steps rows, ascending,
\* evenly spaced over [-variation_range, +variation_range] with both ends
\* included, the value of row i being base_value * (1 + offset_i).
SweepOffsets ==
    (sa.pc = "done" /\ sa.table # None) => OffsetsEven(sa.table[1].rows)

\* C14, amended: that holds for steps >= 2 and variation_range >= 0.
SweepOffsetsFromTwoSteps ==
    (sa.pc = "done" /\ sa.table # None /\ sa.steps >= 2 /\ sa.variation_range >= 0)
        => OffsetsEven(sa.table[1].rows)

SweepOffsetsFromTwoStepsReached ==
    /\ sa.pc = "done"
    /\ sa.table # None
    /\ sa.steps = 4
    /\ sa.variation_range = 100
    /\ sa.rows[2].var = [num |-> -100, den |-> 3]
    /\ sa.rows[4].var = [num |-> 300, den |-> 3]

\* the pre-tax return of the unperturbed parameters of the sweep
BaseReturn ==
    IF EngineRun(sa.params).exc = "none"
    THEN EngineRun(sa.params).metrics[1].irr_pre
    ELSE NanValue

\* coefficient c of a row equals ((irr - base) / base) / offset, with
\* c = c.a / c.b / (c.l / 1000) and offset = var.num / (1000 * var.den)
CoefficientIs(c, row, base) ==
    /\ ~c.nan
    /\ c.a * base * row.var.num = row.var.den * (row.irr.v - base) * c.b * c.l

\* C15: the sensitivity coefficient of a row with an offset other than zero
\* and a defined return is ((return - base_return) / base_return) / offset,
\* base_return being the return of the unperturbed parameters, for an odd
\* and for an even number of steps.
CoefficientFromBase ==
    (sa.pc = "done" /\ sa.table # None /\ sa.table[1].has_coefficient) =>
        \E base \in {BaseReturn} :
            (~base.nan /\ base.v # 0) =>
                \A i \in 1 .. Len(sa.rows) :
                    (sa.rows[i].var.num # 0 /\ ~sa.rows[i].irr.nan) =>
                        CoefficientIs(sa.table[1].coefficient[i], sa.rows[i], base.v)

\* the input a factor name stands for
Canonical(factor) ==
    IF factor = "price" THEN "price_tax_inc"
    ELSE IF factor = "gen_hours" THEN "hours"
    ELSE factor

\* the engine run with the input the factor stands for set to the value of
\* row i
RunWithInput(i) ==
    EngineRun([sa.params EXCEPT ![Canonical(sa.factor)] = Num(sa.rows[i].value)])

\* C16: for each supported factor name, the aliases 'price' and 'gen_hours'
\* included, the engine run of an offset uses base_value * (1 + offset) for
\* the input the name stands for: a sweep of 'price' returns what a sweep of
\* 'price_tax_inc' returns, and 'gen_hours' what 'hours' returns.
PerturbedValueFed ==
    (sa.pc = "done" /\ sa.table # None /\ sa.factor \in Supported) =>
        \A i \in 1 .. Len(sa.rows) :
            \E run \in {RunWithInput(i)} :
                /\ sa.rows[i].failed <=> run.exc # "none"
                /\ ~sa.rows[i].failed => sa.rows[i].irr = run.metrics[1].irr_pre

\* the locals at the end of a calculate_cash_flow on fresh state, for the
\* parameters of the instance
FreshRun == LoopFrom(p, LoopEntry(p))

\* C17: the ledger, the totals and the metrics are a function of the
\* parameters alone: a second calculate_cash_flow on an instance ends with
\* the ledger the first one stored, cell by cell, and whatever instance holds
\* these parameters holds this ledger and returns these metrics; nothing an
\* earlier run left behind enters a later one.
Deterministic ==
    /\ df # None =>
          \E fresh \in {FreshRun} :
             /\ df = fresh.df
             /\ total_invest = fresh.total_invest
             /\ const_interest = fresh.const_interest
             /\ metrics # None => metrics[1] = MetricsOf(fresh)
    /\ (df # None /\ loc.pc = "loop" /\ loc.y = OPERATION_PERIOD + 2) =>
          /\ loc.df = df
          /\ loc.total_invest = total_invest
    /\ loc.pc = "loop" => loc.pool[1] = DeductibleTax(p, Self(p))

DeterministicReached ==
    /\ built
    /\ loc.pc = "loop"
    /\ loc.y = OPERATION_PERIOD + 2
    /\ loc.df = df
    /\ loc.pool[1] > 0
    /\ loc.current_deductible = 0

\* static_invest * (1 - capital_ratio) / 2 * loan_rate, from the parameters
FinancingCostOfP ==
    MulDiv(MulDiv(p.static_invest.v, 100 - Get(p.capital_ratio, 20), 100) \div 2,
           Get(p.loan_rate, 4900), RATE_DEN)

\* an amount of money to one decimal of a wan-yuan, in tenths
ToOneDecimal(x) == (x + MONEY \div 20) \div (MONEY \div 10)

\* C18: on a built instance the construction financing cost is half the loan
\* principal times the loan rate and the total investment is static
\* investment plus that cost plus working capital; for the 100 MW scenario
\* the metrics report 780.2 and 41080.2 to one decimal.
FinancingCost ==
    /\ built =>
          /\ const_interest = FinancingCostOfP
          /\ total_invest = p.static_invest.v + FinancingCostOfP + WorkingCapitalOfP
    /\ (p = Qionghai /\ last = "get_metrics" /\ metrics # None) =>
          /\ ToOneDecimal(metrics[1].const_interest) = 7802
          /\ ToOneDecimal(metrics[1].total_invest) = 410802
          /\ metrics[1].const_interest = RoundMoney(const_interest)
          /\ metrics[1].total_invest = RoundMoney(total_invest)

FinancingCostReached ==
    /\ built
    /\ p = Qionghai
    /\ last = "get_metrics"
    /\ metrics # None
    /\ metrics[1].const_interest = 78016 * (MONEY \div 100)
    /\ metrics[1].total_invest = 4108016 * (MONEY \div 100)

\* the pre-tax net cash flows of the ledger built with hours of row i
PreTaxFlowsAt(i) ==
    Column(LoopFrom([sa.params EXCEPT !.hours = Num(sa.rows[i].value)],
                    LoopEntry([sa.params EXCEPT !.hours = Num(sa.rows[i].value)])).df,
           "Net_CF_Pre")

\* flows b against flows a: no operating period lower, at least one higher
FlowsRise(a, b) ==
    /\ \A t \in 2 .. Len(a) : a[t] <= b[t]
    /\ \E t \in 2 .. Len(a) : a[t] < b[t]

HoursSweepDone ==
    /\ sa.pc = "done"
    /\ sa.params = Qionghai
    /\ sa.factor = "hours"
    /\ sa.variation_range = 150
    /\ sa.steps = 5

\* C19: the sweep of hours over +/-15% in 5 steps on the 100 MW scenario
\* returns five rows, none of them failed, whose hours and whose pre-tax
\* return strictly increase from each row to the next, the pre-tax net cash
\* flow of no operating period decreasing and of at least one increasing.
HoursSweepMonotone ==
    HoursSweepDone =>
        /\ sa.exc = "none"
        /\ sa.table # None
        /\ Len(sa.rows) = 5
        /\ \A i \in 1 .. Len(sa.rows) : ~sa.rows[i].failed /\ ~sa.rows[i].irr.nan
        /\ \A i \in 1 .. Len(sa.rows) - 1 :
              /\ sa.rows[i].value < sa.rows[i + 1].value
              /\ sa.rows[i].irr.v < sa.rows[i + 1].irr.v
              /\ \E a \in {PreTaxFlowsAt(i)} : \E b \in {PreTaxFlowsAt(i + 1)} :
                    FlowsRise(a, b)

HoursSweepMonotoneReached ==
    /\ HoursSweepDone
    /\ sa.table # None
    /\ Len(sa.rows) = 5
    /\ sa.rows[1].value = 1275
    /\ sa.rows[5].value = 1725
    /\ sa.rows[3].irr.v = 1138
    /\ sa.rows[1].irr.v < sa.rows[5].irr.v

CashFlowExports == {"export_financial_cash_flow_table",
                    "export_project_investment_cashflow_table",
                    "export_capital_cashflow_table"}

\* C20: on a built ledger each of the three cash-flow exports raises nothing
\* and returns a table every column of which has one entry per period,
\* OPERATION_PERIOD + 1 of them, the ledger left as it was.
CashFlowExportsReturn ==
    (built /\ df # None /\ last \in CashFlowExports) =>
        /\ raised = "none"
        /\ table # None
        /\ \A i \in DOMAIN table[1] : table[1][i] = OPERATION_PERIOD + 1

Min(a, b) == IF a <= b THEN a ELSE b

\* what the pool lost in the written period y
Consumed(y) == loc.pool[y - 1] - loc.pool[y]

\* the sum of column c of the ledger in progress over the periods 2 .. y
RECURSIVE ColumnSumTo(_, _)
ColumnSumTo(c, y) == IF y < 2 THEN 0 ELSE ColumnSumTo(c, y - 1) + loc.df[y][c]

\* C21: in each operating period the pool loses min(remaining pool, output
\* VAT) and VAT_Payable is output VAT less that amount: zero while the pool
\* lasts, the whole output VAT once it is empty; over the periods written the
\* VAT paid plus the pool used up is the output VAT, and Surtax is 10% of
\* VAT_Payable.
VatPoolAccounting ==
    /\ \A y \in Written :
          /\ Consumed(y) = Min(loc.pool[y - 1], loc.df[y]["Output_VAT"])
          /\ loc.df[y]["VAT_Payable"] = loc.df[y]["Output_VAT"] - Consumed(y)
          /\ loc.pool[y] > 0 => loc.df[y]["VAT_Payable"] = 0
          /\ loc.pool[y - 1] = 0 => loc.df[y]["VAT_Payable"] = loc.df[y]["Output_VAT"]
          /\ loc.df[y]["Surtax"] = MulDiv(loc.df[y]["VAT_Payable"], 10, 100)
          /\ ColumnSumTo("VAT_Payable", y) + (loc.pool[1] - loc.pool[y])
               = ColumnSumTo("Output_VAT", y)

\* a ledger with every operating period written
WholeLedger(ledger) ==
    /\ DOMAIN ledger = Periods
    /\ \A y \in 2 .. (OPERATION_PERIOD + 1) : ledger[y]["Generation"] > 0

\* a step in which a call of calculate_cash_flow raises
CalcRaises == failed' = failed + 1

\* C22: a calculate_cash_flow that raises raises CalculationError with the
\* original exception as its cause and leaves df, total_invest and
\* const_interest as they were before the call; while a run is under way the
\* three keep their values, and a ledger the instance holds is a whole one.
FailedRunKeepsLedger ==
    /\ [](df # None => built /\ WholeLedger(df))
    /\ []((last = "calculate_cash_flow" /\ raised # "none") =>
             /\ raised = "CalculationError"
             /\ cause = "TypeError"
             /\ loc.pc = "idle")
    /\ [][CalcRaises =>
             /\ last' = "calculate_cash_flow"
             /\ raised' = "CalculationError"
             /\ cause' # "none"
             /\ df' = df
             /\ total_invest' = total_invest
             /\ const_interest' = const_interest]_vars
    /\ [][(loc.pc = "idle" /\ loc'.pc = "loop") \/ (loc.pc = "loop" /\ loc'.pc = "loop") =>
             /\ df' = df
             /\ total_invest' = total_invest
             /\ const_interest' = const_interest]_vars

FailedRunKeepsLedgerReached ==
    /\ inst = "ready"
    /\ last = "calculate_cash_flow"
    /\ raised = "CalculationError"
    /\ cause = "TypeError"
    /\ failed > 0
    /\ df = None
    /\ total_invest = 0

NetOfVat(x) == MulDiv(x, 100, 113)

\* the energy of a year, and the parts of it used on site and sold
GenerationOfP == p.capacity_mw.v * Get(p.hours, 1000)
SelfUsedOfP == MulDiv(GenerationOfP, p.self_consumption_ratio.v, 100)
SurplusOfP == MulDiv(GenerationOfP, 100 - p.self_consumption_ratio.v, 100)

SelfConsumptionRow(r) ==
    /\ r["Generation"] = GenerationOfP
    /\ r["Revenue_Exc"] = NetOfVat(SelfUsedOfP * p.retail_price.v)
                          + NetOfVat(SurplusOfP * p.feedin_price.v)
    /\ r["Output_VAT"] = SurplusOfP * p.feedin_price.v
                         - NetOfVat(SurplusOfP * p.feedin_price.v)
    /\ p.self_consumption_ratio.v = 100 =>
          /\ r["Output_VAT"] = 0
          /\ r["VAT_Payable"] = 0
          /\ r["Surtax"] = 0

\* C24: in self-consumption mode the net revenue of every operating period
\* is the self-used energy at the retail price net of VAT plus the surplus at
\* the feed-in price net of VAT, and Output_VAT is the VAT of the surplus
\* alone; with a ratio of 1 Output_VAT and VAT_Payable are zero in every
\* period and the pool stays at its initial amount.
SelfConsumptionSplit ==
    (inst = "ready" /\ p.mode = MODE_SELF_CONSUMPTION) =>
        /\ \A y \in Written : SelfConsumptionRow(loc.df[y])
        /\ df # None => \A y \in 2 .. (OPERATION_PERIOD + 1) : SelfConsumptionRow(df[y])
        /\ p.self_consumption_ratio.v = 100 =>
              \A i \in 1 .. Len(loc.pool) : loc.pool[i] = loc.pool[1]

SelfConsumptionSplitReached ==
    /\ built
    /\ p.mode = MODE_SELF_CONSUMPTION
    /\ p.self_consumption_ratio.v = 100
    /\ Len(loc.pool) = OPERATION_PERIOD + 1
    /\ loc.pool[OPERATION_PERIOD + 1] > 0
    /\ df[2]["Revenue_Exc"] > 0
    /\ df[OPERATION_PERIOD + 1]["Output_VAT"] = 0

\* the parameters of the instance with other financing
FinancingVariants ==
    { [p EXCEPT !.loan_rate = lr, !.capital_ratio = cr] :
          lr \in {Missing, Num(4876), Num(9000)}, cr \in {Missing, Num(50), Num(100)} }

\* the columns financing may change
FinancingColumns == {"Income_Tax", "Net_CF_After"}

SameButFinancing(a, b) ==
    \A y \in Periods : \A c \in Cols \ FinancingColumns : a[y][c] = b[y][c]

JustBuilt == built /\ loc.pc = "idle" /\ last = "calculate_cash_flow" /\ raised = "none"

\* C25: the ledger of a project with other loan_rate and capital_ratio, all
\* else equal, has the same Net_CF_Pre in each of the 26 periods, and so the
\* same pre-tax return; the two ledgers differ in Income_Tax and Net_CF_After
\* at most, and the instances in total investment and construction interest.
PreTaxFlowsIgnoreFinancing ==
    JustBuilt =>
        \A q \in FinancingVariants :
            \E other \in {LoopFrom(q, LoopEntry(q))} :
                /\ Column(other.df, "Net_CF_Pre") = Column(df, "Net_CF_Pre")
                /\ SameButFinancing(other.df, df)

PreTaxFlowsIgnoreFinancingReached ==
    /\ JustBuilt
    /\ \E q \in FinancingVariants :
          \E other \in {LoopFrom(q, LoopEntry(q))} :
             /\ other.const_interest # const_interest
             /\ other.total_invest # total_invest
             /\ other.df[10]["Income_Tax"] # df[10]["Income_Tax"]
             /\ other.df[10]["Net_CF_Pre"] = df[10]["Net_CF_Pre"]

\* the full-grid project that sells at the feed-in price of the instance
FullGridTwin ==
    [p EXCEPT !.mode = MODE_FULL_GRID, !.price_tax_inc = p.feedin_price,
              !.self_consumption_ratio = Missing, !.retail_price = Missing,
              !.feedin_price = Missing]

NothingSelfUsed ==
    /\ inst = "ready"
    /\ p.mode = MODE_SELF_CONSUMPTION
    /\ p.self_consumption_ratio.v = 0

\* C26: a self-consumption project with a ratio of 0 has, column by column
\* and period by period, the ledger of the full-grid project whose
\* price_tax_inc is its feed-in price, the same totals and the same metrics.
ZeroRatioIsFullGrid ==
    NothingSelfUsed =>
        /\ Validate(FullGridTwin) = "none"
        /\ loc.pc = "loop" =>
              \A y \in Written : loc.df[y] = Iteration(Self(FullGridTwin), loc.fixed_asset_value,
                                                       loc.pool[y - 1], y).row
        /\ JustBuilt =>
              \E twin \in {LoopFrom(FullGridTwin, LoopEntry(FullGridTwin))} :
                 /\ twin.df = df
                 /\ twin.total_invest = total_invest
                 /\ twin.const_interest = const_interest
                 /\ MetricsOf(twin) = Metrics(df, total_invest, const_interest)

ZeroRatioIsFullGridReached ==
    /\ NothingSelfUsed
    /\ JustBuilt
    /\ p.retail_price.v # p.feedin_price.v
    /\ df[2]["Revenue_Inc"] = GenerationOfP * p.feedin_price.v
    /\ df[2]["Output_VAT"] > 0

\* a sweep that returned a table with coefficients
CoefficientsReturned == sa.pc = "done" /\ sa.table # None /\ sa.table[1].has_coefficient

\* the return of row i is the base of every coefficient of the table
BaseOfAll(i) ==
    \A j \in 1 .. Len(sa.rows) :
        ~sa.table[1].coefficient[j].nan => sa.table[1].coefficient[j].b = sa.rows[i].irr.v

\* C27: in a table with coefficients the row of offset zero, when there is
\* one, is the base row: its return is the base of every coefficient, and its
\* own coefficient is 0.0, not the outcome of a division by its offset.
ZeroOffsetRowIsBase ==
    CoefficientsReturned =>
        \A i \in 1 .. Len(sa.rows) :
            sa.rows[i].var.num = 0 =>
                /\ BaseOfAll(i)
                /\ ~sa.table[1].coefficient[i].nan
                /\ sa.table[1].coefficient[i].a = 0
====
